---- MODULE Spec2Model ----
(***************************************************************************)
(* Model of the embedding-train data preparation utilities:                *)
(*   src/v1/processor.py  KoE5MRCProcessor (example builder) and           *)
(*                        convert_examples_to_features (feature encoder)   *)
(*   src/v1/utils.py      get_task_def_by_task_name_and_type,              *)
(*                        create_batch_dict                                *)
(*                                                                         *)
(* Texts are sequences of one-character strings, so that prefixing,        *)
(* truncation and padding are computed and not assumed.  Python values     *)
(* are tagged records [tag, items, n].                                     *)
(***************************************************************************)
EXTENDS Integers, Sequences, FiniteSets, TLC

VARIABLES
    call,        \* the entry point invoked in this run ("none" before it)
    files,       \* the data directory: file name -> parsed content
    opened,      \* the paths handed to open() by the last get_*_examples call
    datas,       \* the raw records handed to _create_examples
    result,      \* outcome of the last builder call
    tokenizer,   \* the tokenizer object (its model_max_length)
    max_length,  \* the max_length argument of convert_examples_to_features
    features,    \* outcome of convert_examples_to_features
    task,        \* the (task_name, task_type) arguments of the lookup
    task_def,    \* outcome of get_task_def_by_task_name_and_type
    batch_args,  \* the arguments of create_batch_dict
    batch_dict   \* outcome of create_batch_dict

vars == <<call, files, opened, datas, result, tokenizer, max_length, features,
          task, task_def, batch_args, batch_dict>>

----------------------------------------------------------------------------
(* Bounds *)

MaxRecords == 2     \* records per input sequence
MaxListLen == 2     \* elements of a list-valued query field
MaxLength == 12     \* largest max_length / model_max_length tried
MaxBatch == 2       \* texts per create_batch_dict call
MaxTextLen == 9     \* characters per create_batch_dict text
MaxBatchLength == 9 \* largest max_length of create_batch_dict tried

----------------------------------------------------------------------------
(* Python values *)

PyStr(t) == [tag |-> "str", items |-> <<t>>, n |-> 0]

PyList(ts) == [tag |-> "list", items |-> ts, n |-> 0]

PyInt(k) == [tag |-> "int", items |-> <<>>, n |-> k]

PyNone == [tag |-> "none", items |-> <<>>, n |-> 0]

IsStr(v) == v.tag = "str"

IsList(v) == v.tag = "list"

TextOf(v) == v.items[1]

\* Outcomes of a call: a returned value or a raised exception.
Returned(v) == [kind |-> "ok", value |-> v, err |-> "none"]

Raised(e) == [kind |-> "error", value |-> <<>>, err |-> e]

NotCalled == [kind |-> "idle", value |-> <<>>, err |-> "none"]

\* create_batch_dict not called: no arguments.
NoBatchArgs ==
    [input_texts |-> <<>>, always_add_eos |-> FALSE, max_length |-> 0,
     tokenizer |-> [add_bos |-> FALSE, padding_side |-> "right"]]

\* Outcome of the lookup: the instruction, or an exception with its message.
TaskReturned(instruction) ==
    [kind |-> "ok", value |-> instruction, err |-> "none", msg |-> <<>>]

TaskRaised(e, message) ==
    [kind |-> "error", value |-> "", err |-> e, msg |-> message]

TaskNotCalled == [kind |-> "idle", value |-> "", err |-> "none", msg |-> <<>>]

----------------------------------------------------------------------------
(* Text literals *)

QueryPrefix == <<"q", "u", "e", "r", "y", ":", " ">>

PassagePrefix == <<"p", "a", "s", "s", "a", "g", "e", ":", " ">>

NoneText == <<"N", "o", "n", "e">>

DigitChar(d) == <<"0", "1", "2", "3", "4", "5", "6", "7", "8", "9">>[d + 1]

RECURSIVE DecimalText(_)
DecimalText(k) ==
    IF k < 10 THEN <<DigitChar(k)>>
    ELSE DecimalText(k \div 10) \o <<DigitChar(k % 10)>>

\* str(v) as an f-string placeholder renders it; the builder never hands a
\* list to the placeholder when list elements are strings.
FormatValue(v) ==
    CASE v.tag = "str" -> TextOf(v)
      [] v.tag = "int" -> DecimalText(v.n)
      [] v.tag = "none" -> NoneText

StartsWith(t, prefix) ==
    /\ Len(t) >= Len(prefix)
    /\ SubSeq(t, 1, Len(prefix)) = prefix

AfterPrefix(t, prefix) == SubSeq(t, Len(prefix) + 1, Len(t))

----------------------------------------------------------------------------
(* Example builder: src/v1/processor.py *)

\* InputExample dataclass: three fields stored as given.
InputExample(query, positive_passage, negative_passage) ==
    [query |-> query,
     positive_passage |-> positive_passage,
     negative_passage |-> negative_passage]

\* Variant: the prefixes are written without the separating blank.
E5InputExampleNoBlank(query, positive_passage, negative_passage) ==
    InputExample(
        PyStr(SubSeq(QueryPrefix, 1, Len(QueryPrefix) - 1)
                  \o FormatValue(query)),
        PyStr(SubSeq(PassagePrefix, 1, Len(PassagePrefix) - 1)
                  \o FormatValue(positive_passage)),
        PyStr(SubSeq(PassagePrefix, 1, Len(PassagePrefix) - 1)
                  \o FormatValue(negative_passage)))

\* E5InputExample.__init__: every argument goes through an f-string.
E5InputExample(query, positive_passage, negative_passage) ==
    InputExample(PyStr(QueryPrefix \o FormatValue(query)),
                 PyStr(PassagePrefix \o FormatValue(positive_passage)),
                 PyStr(PassagePrefix \o FormatValue(negative_passage)))

\* Variant: a list yields its last element (index -1 instead of 0).
ExtractFieldLast(data, key) ==
    IF key \notin DOMAIN data THEN Raised("KeyError")
    ELSE IF IsList(data[key])
         THEN IF Len(data[key].items) = 0 THEN Raised("IndexError")
              ELSE Returned(PyStr(data[key].items[Len(data[key].items)]))
         ELSE Returned(data[key])

\* data[key] if not a list, data[key][0] if a list; KeyError / IndexError
\* are the exceptions Python raises for a missing key / an empty list.
ExtractField(data, key) ==
    IF key \notin DOMAIN data THEN Raised("KeyError")
    ELSE IF IsList(data[key])
         THEN IF Len(data[key].items) = 0 THEN Raised("IndexError")
              ELSE Returned(PyStr(data[key].items[1]))
         ELSE Returned(data[key])

\* The hard_negative branch: None when the key is absent.
ExtractHardNegative(data) ==
    IF "hard_negative" \in DOMAIN data
    THEN ExtractField(data, "hard_negative")
    ELSE Returned(PyNone)

\* One iteration of the loop body: an Example or the first exception.
BuildExample(data) ==
    LET q == ExtractField(data, "query")
        d == ExtractField(data, "document")
        h == ExtractHardNegative(data)
    IN  IF q.kind = "error" THEN q
        ELSE IF d.kind = "error" THEN d
        ELSE IF h.kind = "error" THEN h
        ELSE Returned(E5InputExample(q.value, d.value, h.value))

\* Variant: each new example is inserted at the front of the list.
RECURSIVE CreateLoopPrepend(_, _, _)
CreateLoopPrepend(ds, i, examples) ==
    IF i > Len(ds) THEN Returned(examples)
    ELSE LET e == BuildExample(ds[i])
         IN  IF e.kind = "error" THEN e
             ELSE CreateLoopPrepend(ds, i + 1, <<e.value>> \o examples)

RECURSIVE CreateLoop(_, _, _)
CreateLoop(ds, i, examples) ==
    IF i > Len(ds) THEN Returned(examples)
    ELSE LET e == BuildExample(ds[i])
         IN  IF e.kind = "error" THEN e
             ELSE CreateLoop(ds, i + 1, Append(examples, e.value))

\* KoE5MRCProcessor._create_examples
CreateExamples(ds) == CreateLoop(ds, 1, <<>>)

----------------------------------------------------------------------------
(* Reading a split from the data directory: src/v1/processor.py *)

Splits == {"train", "dev", "test"}

JsonName(split) ==
    CASE split = "train" -> "train.json"
      [] split = "dev" -> "dev.json"
      [] split = "test" -> "test.json"

JsonlName(split) ==
    CASE split = "train" -> "train.jsonl"
      [] split = "dev" -> "dev.jsonl"
      [] split = "test" -> "test.jsonl"

FileNames == {JsonName(s) : s \in Splits} \cup {JsonlName(s) : s \in Splits}

\* os.listdir(data_dir)
ListDir(fs) == DOMAIN fs

\* Variant: the .jsonl file is preferred whenever it is listed.
SelectPathJsonlFirst(listing, split) ==
    IF JsonlName(split) \in listing THEN JsonlName(split)
    ELSE JsonName(split)

\* The if/else of get_*_examples: <split>.json when listed, else
\* <split>.jsonl, whether or not the latter exists.
SelectPath(listing, split) ==
    IF JsonName(split) \in listing THEN JsonName(split)
    ELSE JsonlName(split)

\* open(input_file): the content, or FileNotFoundError.  A file's content
\* is kept in parsed form (the records of the JSON array, or of the lines).
OpenFile(fs, path) ==
    IF path \in DOMAIN fs THEN Returned(fs[path])
    ELSE Raised("FileNotFoundError")

\* _read_json: json.load of the whole file.
ReadJson(fs, path) == OpenFile(fs, path)

\* Variant: a file that cannot be opened reads as no records.
ReadJsonlLenient(fs, path) ==
    IF path \in DOMAIN fs THEN Returned(fs[path]) ELSE Returned(<<>>)

\* _read_jsonl: json.loads of every line, appended in file order.
ReadJsonl(fs, path) == OpenFile(fs, path)

\* Body shared by get_train_examples, get_dev_examples, get_test_examples.
GetExamples(fs, split) ==
    LET path == SelectPath(ListDir(fs), split)
        read == IF path = JsonName(split) THEN ReadJson(fs, path)
                ELSE ReadJsonl(fs, path)
    IN  [opened |-> <<path>>,
         read |-> read,
         outcome |-> IF read.kind = "error" THEN read
                     ELSE CreateExamples(read.value)]

----------------------------------------------------------------------------
(* Feature encoder: src/v1/processor.py *)

\* The tokenizer collaborator, as convert_examples_to_features uses it:
\* one token per character, id 0 for padding.
Vocab ==
    <<"<pad>", " ", ":", "0", "1", "2", "3", "4", "5", "6", "7", "8", "9",
      "N", "a", "d", "e", "g", "n", "o", "p", "q", "r", "s", "u", "y",
      "<s>", "</s>">>

TokenId(c) == (CHOOSE k \in 1..Len(Vocab) : Vocab[k] = c) - 1

pad_token_id == TokenId("<pad>")

Min(a, b) == IF a < b THEN a ELSE b

\* One row with truncation=True and padding="max_length".
EncodeRow(text, L) ==
    LET kept == Min(Len(text), L)
    IN  [input_ids |->
             [i \in 1..L |-> IF i <= kept THEN TokenId(text[i])
                             ELSE pad_token_id],
         attention_mask |-> [i \in 1..L |-> IF i <= kept THEN 1 ELSE 0]]

\* tokenizer(column, max_length=L, padding="max_length", truncation=True):
\* a BatchEncoding of parallel rows; a non-string entry is rejected.
TokenizerCall(column, L) ==
    IF \E i \in 1..Len(column) : ~IsStr(column[i]) THEN Raised("ValueError")
    ELSE Returned(
             [input_ids |->
                  [i \in 1..Len(column) |->
                      EncodeRow(TextOf(column[i]), L).input_ids],
              attention_mask |->
                  [i \in 1..Len(column) |->
                      EncodeRow(TextOf(column[i]), L).attention_mask]])

\* Variant: the max_length argument is ignored.
EffectiveMaxLengthDefaultOnly(tok, maxlen) == tok.model_max_length

\* if max_length is None: max_length = tokenizer.model_max_length
EffectiveMaxLength(tok, maxlen) ==
    IF maxlen = PyNone THEN tok.model_max_length ELSE maxlen.n

\* Variant: the hard-negative fields are taken from the document batch.
FeatureRowNegFromDoc(qenc, denc, nenc, i) ==
    [query_input_ids |-> qenc.input_ids[i],
     query_attention_mask |-> qenc.attention_mask[i],
     document_input_ids |-> denc.input_ids[i],
     document_attention_mask |-> denc.attention_mask[i],
     hard_negative_input_ids |-> denc.input_ids[i],
     hard_negative_attention_mask |-> denc.attention_mask[i]]

\* The dict appended for index i.
FeatureRow(qenc, denc, nenc, i) ==
    [query_input_ids |-> qenc.input_ids[i],
     query_attention_mask |-> qenc.attention_mask[i],
     document_input_ids |-> denc.input_ids[i],
     document_attention_mask |-> denc.attention_mask[i],
     hard_negative_input_ids |-> nenc.input_ids[i],
     hard_negative_attention_mask |-> nenc.attention_mask[i]]

QueryColumn(examples) == [i \in 1..Len(examples) |-> examples[i].query]

DocumentColumn(examples) ==
    [i \in 1..Len(examples) |-> examples[i].positive_passage]

NegativeColumn(examples) ==
    [i \in 1..Len(examples) |-> examples[i].negative_passage]

\* convert_examples_to_features
ConvertExamplesToFeatures(examples, tok, maxlen) ==
    LET L == EffectiveMaxLength(tok, maxlen)
        qenc == TokenizerCall(QueryColumn(examples), L)
        denc == TokenizerCall(DocumentColumn(examples), L)
        nenc == TokenizerCall(NegativeColumn(examples), L)
    IN  IF qenc.kind = "error" THEN qenc
        ELSE IF denc.kind = "error" THEN denc
        ELSE IF nenc.kind = "error" THEN nenc
        ELSE Returned([i \in 1..Len(examples) |->
                          FeatureRow(qenc.value, denc.value, nenc.value, i)])

----------------------------------------------------------------------------
(* Inputs of the example builder *)

Q1 == <<"q", "1">>

Q2 == <<"q", "2">>

D1 == <<"d", "1">>

D2 == <<"d", "2">>

N1 == <<"n", "1">>

N2 == <<"n", "2">>

\* A list-valued query of n elements: q1, q2, q1, ...
QueryList(n) == [i \in 1..n |-> IF i % 2 = 1 THEN Q1 ELSE Q2]

QueryValues ==
    {PyStr(Q1), PyStr(Q2), PyInt(42)}
        \cup {PyList(QueryList(n)) : n \in 0..MaxListLen}

DocumentValues == {PyStr(D1), PyList(<<D1, D2>>)}

HardNegativeValues == {PyStr(N1), PyList(<<N1, N2>>), PyNone}

Record2(q, d) == ("query" :> q) @@ ("document" :> d)

Record3(q, d, h) == Record2(q, d) @@ ("hard_negative" :> h)

Records ==
    {Record2(q, d) : q \in QueryValues, d \in DocumentValues}
        \cup {Record3(q, d, h) : q \in QueryValues, d \in DocumentValues,
                                 h \in HardNegativeValues}

RecordSeqs == UNION {[1..k -> Records] : k \in 0..MaxRecords}

\* A value the builder accepts: a string, or a non-empty list.
ValidValue(v) == IsStr(v) \/ (IsList(v) /\ Len(v.items) > 0)

ValidRecord(data) ==
    /\ {"query", "document"} \subseteq DOMAIN data
    /\ \A k \in DOMAIN data : ValidValue(data[k])

\* What the field extraction policy selects from a valid value.
Selected(v) == IF IsList(v) THEN v.items[1] ELSE TextOf(v)

----------------------------------------------------------------------------
(* Direct calls of _create_examples *)

InitCreate ==
    /\ call = "none"
    /\ datas \in RecordSeqs
    /\ files = <<>>
    /\ opened = <<>>
    /\ result = NotCalled
    /\ tokenizer = [model_max_length |-> 0]
    /\ max_length = PyNone
    /\ features = NotCalled
    /\ task = <<"", "">>
    /\ task_def = TaskNotCalled
    /\ batch_args = NoBatchArgs
    /\ batch_dict = NotCalled

CallCreateExamples ==
    /\ call = "none"
    /\ call' = "_create_examples"
    /\ result' = CreateExamples(datas)
    /\ UNCHANGED <<files, opened, datas, tokenizer, max_length, features,
                   task, task_def, batch_args, batch_dict>>

NextCreate == CallCreateExamples

SpecCreate == InitCreate /\ [][NextCreate]_vars

----------------------------------------------------------------------------
(* Properties of _create_examples, checked under SpecCreate *)

AllValid == \A i \in 1..Len(datas) : ValidRecord(datas[i])

Built == result.kind = "ok"

\* C1: for a sequence of valid records the builder returns one Example per
\* record, in order: equal length, and Example i carries the query and the
\* document (and the hard negative, when present) selected from record i.
C1_OneExamplePerRecord ==
    (result.kind # "idle" /\ AllValid) =>
        /\ Built
        /\ Len(result.value) = Len(datas)
        /\ \A i \in 1..Len(datas) :
            /\ result.value[i].query
                   = PyStr(QueryPrefix \o Selected(datas[i]["query"]))
            /\ result.value[i].positive_passage
                   = PyStr(PassagePrefix \o Selected(datas[i]["document"]))
            /\ "hard_negative" \in DOMAIN datas[i] =>
                   result.value[i].negative_passage
                       = PyStr(PassagePrefix
                                   \o Selected(datas[i]["hard_negative"]))

C1_Witness ==
    /\ Built
    /\ AllValid
    /\ Len(datas) = MaxRecords
    /\ Len(result.value) = MaxRecords
    /\ result.value[1].query # result.value[MaxRecords].query

\* C2: a record without the hard_negative key yields a null
\* negative_passage; with the key, the prefixed hard-negative text.
C2_AbsentNegativeIsNull ==
    Built =>
        \A i \in 1..Len(datas) :
            IF "hard_negative" \notin DOMAIN datas[i]
            THEN result.value[i].negative_passage = PyNone
            ELSE ValidValue(datas[i]["hard_negative"]) =>
                     result.value[i].negative_passage
                         = PyStr(PassagePrefix
                                     \o Selected(datas[i]["hard_negative"]))

FieldPrefix(key) == IF key = "query" THEN QueryPrefix ELSE PassagePrefix

ExampleField(example, key) ==
    CASE key = "query" -> example.query
      [] key = "document" -> example.positive_passage
      [] key = "hard_negative" -> example.negative_passage

\* C5: for query, document and hard_negative alike, a non-empty list
\* contributes its element 0 and nothing of the later elements, a string
\* contributes itself whole.
C5_FirstElementOnly ==
    Built =>
        \A i \in 1..Len(datas) : \A key \in DOMAIN datas[i] :
            LET v == datas[i][key]
                text == AfterPrefix(TextOf(ExampleField(result.value[i], key)),
                                    FieldPrefix(key))
            IN  /\ (IsList(v) /\ Len(v.items) > 0) => text = v.items[1]
                /\ IsStr(v) => text = TextOf(v)

C5_Witness ==
    /\ Built
    /\ \E i \in 1..Len(datas) :
        /\ "hard_negative" \in DOMAIN datas[i]
        /\ \A key \in DOMAIN datas[i] :
            /\ IsList(datas[i][key])
            /\ Len(datas[i][key].items) > 1
            /\ datas[i][key].items[1] # datas[i][key].items[2]
    /\ \E i \in 1..Len(datas) : IsStr(datas[i]["query"])

\* C6: every Example's query starts with "query: " and its
\* positive_passage with "passage: "; what follows the prefix is exactly
\* the text selected from the record.
C6_Prefixes ==
    Built =>
        \A i \in 1..Len(result.value) :
            LET q == result.value[i].query
                p == result.value[i].positive_passage
            IN  /\ IsStr(q) /\ StartsWith(TextOf(q), QueryPrefix)
                /\ IsStr(p) /\ StartsWith(TextOf(p), PassagePrefix)
                /\ ValidValue(datas[i]["query"]) =>
                       AfterPrefix(TextOf(q), QueryPrefix)
                           = Selected(datas[i]["query"])
                /\ ValidValue(datas[i]["document"]) =>
                       AfterPrefix(TextOf(p), PassagePrefix)
                           = Selected(datas[i]["document"])

C6_Witness ==
    /\ Built
    /\ Len(result.value) = MaxRecords
    /\ \E i \in 1..Len(datas) :
        IsStr(datas[i]["query"]) /\ IsList(datas[i]["document"])
    /\ \E i \in 1..Len(datas) : ~ValidValue(datas[i]["query"])

HasUnsupportedField ==
    \E i \in 1..Len(datas) : \E key \in DOMAIN datas[i] :
        ~IsStr(datas[i][key]) /\ ~IsList(datas[i][key])

\* C9: a field that is neither a string nor a list makes the build fail
\* with an UnsupportedFieldTypeError; no examples are returned.
C9_UnsupportedTypeRaises ==
    (result.kind # "idle" /\ HasUnsupportedField) =>
        /\ result.kind = "error"
        /\ result.err = "UnsupportedFieldTypeError"

----------------------------------------------------------------------------
(* The pipeline: directory -> examples -> features *)

\* Contents a split file may hold.
ContentA ==
    <<Record3(PyStr(Q1), PyStr(D1), PyStr(<<"n">>)),
      Record2(PyList(<<Q2, Q1>>), PyList(<<D2, D1>>))>>

ContentB == <<Record3(PyStr(<<"q">>), PyStr(D2), PyList(<<N2, N1>>))>>

FileContents == {ContentA, ContentB}

Directories == UNION {[S -> FileContents] : S \in SUBSET FileNames}

Tokenizers ==
    {[model_max_length |-> m] : m \in {MaxLength - 1, MaxLength}}

MaxLengthArgs == {PyNone} \cup {PyInt(k) : k \in 1..MaxLength}

Init ==
    /\ call = "none"
    /\ files \in Directories
    /\ tokenizer \in Tokenizers
    /\ opened = <<>>
    /\ datas = <<>>
    /\ result = NotCalled
    /\ max_length = PyNone
    /\ features = NotCalled
    /\ task = <<"", "">>
    /\ task_def = TaskNotCalled
    /\ batch_args = NoBatchArgs
    /\ batch_dict = NotCalled

\* get_train_examples(data_dir)
GetTrainExamples ==
    LET got == GetExamples(files, "train")
    IN  /\ call = "none"
        /\ call' = "train"
        /\ opened' = got.opened
        /\ datas' = got.read.value
        /\ result' = got.outcome
        /\ UNCHANGED <<files, tokenizer, max_length, features, task,
                       task_def, batch_args, batch_dict>>

\* get_dev_examples(data_dir)
GetDevExamples ==
    LET got == GetExamples(files, "dev")
    IN  /\ call = "none"
        /\ call' = "dev"
        /\ opened' = got.opened
        /\ datas' = got.read.value
        /\ result' = got.outcome
        /\ UNCHANGED <<files, tokenizer, max_length, features, task,
                       task_def, batch_args, batch_dict>>

\* get_test_examples(data_dir)
GetTestExamples ==
    LET got == GetExamples(files, "test")
    IN  /\ call = "none"
        /\ call' = "test"
        /\ opened' = got.opened
        /\ datas' = got.read.value
        /\ result' = got.outcome
        /\ UNCHANGED <<files, tokenizer, max_length, features, task,
                       task_def, batch_args, batch_dict>>

\* convert_examples_to_features(examples, tokenizer, max_length)
CallConvertExamplesToFeatures ==
    /\ call \in Splits
    /\ result.kind = "ok"
    /\ features.kind = "idle"
    /\ \E maxlen \in MaxLengthArgs :
        /\ max_length' = maxlen
        /\ features' = ConvertExamplesToFeatures(result.value, tokenizer,
                                                  maxlen)
    /\ UNCHANGED <<call, files, opened, datas, result, tokenizer, task,
                   task_def, batch_args, batch_dict>>

Next ==
    \/ GetTrainExamples
    \/ GetDevExamples
    \/ GetTestExamples
    \/ CallConvertExamplesToFeatures

Spec == Init /\ [][Next]_vars

----------------------------------------------------------------------------
(* Properties of the pipeline, checked under Spec *)

HasJson(s) == JsonName(s) \in DOMAIN files

HasJsonl(s) == JsonlName(s) \in DOMAIN files

Opened(name) == \E i \in 1..Len(opened) : opened[i] = name

\* C3: with both <s>.json and <s>.jsonl in the directory only <s>.json is
\* opened and read; <s>.jsonl is opened only when <s>.json is not listed.
C3_JsonPriority ==
    \A s \in Splits :
        call = s =>
            /\ (HasJson(s) /\ HasJsonl(s)) =>
                   /\ opened = <<JsonName(s)>>
                   /\ datas = files[JsonName(s)]
            /\ Opened(JsonlName(s)) => ~HasJson(s)
            /\ \A name \in FileNames :
                   Opened(name) => name \in {JsonName(s), JsonlName(s)}

C3_Witness ==
    /\ call = "train"
    /\ HasJson("train")
    /\ HasJsonl("train")
    /\ files["train.json"] # files["train.jsonl"]
    /\ result.kind = "ok"
    /\ datas = files["train.json"]

\* C4: with neither <s>.json nor <s>.jsonl in the directory the call for
\* split s fails with FileNotFoundError and returns no examples.
C4_MissingFile ==
    \A s \in Splits :
        (call = s /\ ~HasJson(s) /\ ~HasJsonl(s)) =>
            /\ result.kind = "error"
            /\ result.err = "FileNotFoundError"
            /\ result.value = <<>>
            /\ features.kind = "idle"

C4_Witness ==
    /\ call = "dev"
    /\ ~HasJson("dev")
    /\ ~HasJsonl("dev")
    /\ HasJson("train")
    /\ HasJsonl("test")
    /\ result.err = "FileNotFoundError"

\* C7: one FeatureSet per Example, in input order; the query_*, document_*
\* and hard_negative_* fields of FeatureSet i are row i of the tokenizer
\* output for the query, positive_passage and negative_passage column.
C7_RowPerExample ==
    features.kind # "idle" =>
        LET examples == result.value
            L == EffectiveMaxLength(tokenizer, max_length)
            q == TokenizerCall(QueryColumn(examples), L).value
            d == TokenizerCall(DocumentColumn(examples), L).value
            h == TokenizerCall(NegativeColumn(examples), L).value
        IN  /\ features.kind = "ok"
            /\ Len(features.value) = Len(examples)
            /\ \A i \in 1..Len(examples) :
                LET f == features.value[i]
                IN  /\ f.query_input_ids = q.input_ids[i]
                    /\ f.query_attention_mask = q.attention_mask[i]
                    /\ f.document_input_ids = d.input_ids[i]
                    /\ f.document_attention_mask = d.attention_mask[i]
                    /\ f.hard_negative_input_ids = h.input_ids[i]
                    /\ f.hard_negative_attention_mask = h.attention_mask[i]

C7_Witness ==
    /\ features.kind = "ok"
    /\ Len(features.value) = 2
    /\ features.value[1].query_input_ids # features.value[2].query_input_ids
    /\ features.value[1].document_input_ids
           # features.value[2].document_input_ids
    /\ \A i \in 1..2 :
        /\ features.value[i].document_input_ids
               # features.value[i].hard_negative_input_ids
        /\ features.value[i].document_attention_mask
               # features.value[i].hard_negative_attention_mask

ExpectedLength ==
    IF max_length = PyNone THEN tokenizer.model_max_length ELSE max_length.n

\* C8: every *_input_ids sequence has length exactly max_length, whatever
\* the length of the text; with max_length omitted, the tokenizer's
\* model_max_length.
C8_FixedLength ==
    features.kind # "idle" =>
        /\ features.kind = "ok"
        /\ \A i \in 1..Len(features.value) :
            /\ Len(features.value[i].query_input_ids) = ExpectedLength
            /\ Len(features.value[i].document_input_ids) = ExpectedLength
            /\ Len(features.value[i].hard_negative_input_ids) = ExpectedLength

C8_Witness ==
    /\ features.kind = "ok"
    /\ max_length = PyNone
    /\ \E i \in 1..Len(result.value) :
        /\ Len(TextOf(result.value[i].query)) < tokenizer.model_max_length
        /\ Len(TextOf(result.value[i].negative_passage))
               > tokenizer.model_max_length
        /\ Len(features.value[i].query_input_ids)
               = tokenizer.model_max_length
        /\ Len(features.value[i].hard_negative_input_ids)
               = tokenizer.model_max_length

----------------------------------------------------------------------------
(* Instruction lookup: src/v1/utils.py *)

\* task_name_to_instruct of the Classification branch
ClassificationInstruct ==
    ("AmazonCounterfactualClassification" :>
        "Classify a given Amazon customer review text as either counterfactual or not-counterfactual") @@
    ("AmazonPolarityClassification" :>
        "Classify Amazon reviews into positive or negative sentiment") @@
    ("AmazonReviewsClassification" :>
        "Classify the given Amazon review into its appropriate rating category") @@
    ("Banking77Classification" :>
        "Given a online banking query, find the corresponding intents") @@
    ("EmotionClassification" :>
        "Classify the emotion expressed in the given Twitter message into one of the six emotions: anger, fear, joy, love, sadness, and surprise") @@
    ("ImdbClassification" :>
        "Classify the sentiment expressed in the given movie review text from the IMDB dataset") @@
    ("MassiveIntentClassification" :>
        "Given a user utterance as query, find the user intents") @@
    ("MassiveScenarioClassification" :>
        "Given a user utterance as query, find the user scenarios") @@
    ("MTOPDomainClassification" :>
        "Classify the intent domain of the given utterance in task-oriented conversation") @@
    ("MTOPIntentClassification" :>
        "Classify the intent of the given utterance in task-oriented conversation") @@
    ("ToxicConversationsClassification" :>
        "Classify the given comments as either toxic or not toxic") @@
    ("TweetSentimentExtractionClassification" :>
        "Classify the sentiment of a given tweet as either positive, negative, or neutral") @@
    ("TNews" :>
        "Classify the fine-grained category of the given news title") @@
    ("IFlyTek" :>
        "Given an App description text, find the appropriate fine-grained category") @@
    ("MultilingualSentiment" :>
        "Classify sentiment of the customer review into positive, neutral, or negative") @@
    ("JDReview" :>
        "Classify the customer review for iPhone on e-commerce platform into positive or negative") @@
    ("OnlineShopping" :>
        "Classify the customer review for online shopping into positive or negative") @@
    ("Waimai" :>
        "Classify the customer review from a food takeaway platform into positive or negative")

\* task_name_to_instruct of the Clustering branch
ClusteringInstruct ==
    ("ArxivClusteringP2P" :>
        "Identify the main and secondary category of Arxiv papers based on the titles and abstracts") @@
    ("ArxivClusteringS2S" :>
        "Identify the main and secondary category of Arxiv papers based on the titles") @@
    ("BiorxivClusteringP2P" :>
        "Identify the main category of Biorxiv papers based on the titles and abstracts") @@
    ("BiorxivClusteringS2S" :>
        "Identify the main category of Biorxiv papers based on the titles") @@
    ("MedrxivClusteringP2P" :>
        "Identify the main category of Medrxiv papers based on the titles and abstracts") @@
    ("MedrxivClusteringS2S" :>
        "Identify the main category of Medrxiv papers based on the titles") @@
    ("RedditClustering" :>
        "Identify the topic or theme of Reddit posts based on the titles") @@
    ("RedditClusteringP2P" :>
        "Identify the topic or theme of Reddit posts based on the titles and posts") @@
    ("StackExchangeClustering" :>
        "Identify the topic or theme of StackExchange posts based on the titles") @@
    ("StackExchangeClusteringP2P" :>
        "Identify the topic or theme of StackExchange posts based on the given paragraphs") @@
    ("TwentyNewsgroupsClustering" :>
        "Identify the topic or theme of the given news articles") @@
    ("CLSClusteringS2S" :>
        "Identify the main category of scholar papers based on the titles") @@
    ("CLSClusteringP2P" :>
        "Identify the main category of scholar papers based on the titles and abstracts") @@
    ("ThuNewsClusteringS2S" :>
        "Identify the topic or theme of the given news articles based on the titles") @@
    ("ThuNewsClusteringP2P" :>
        "Identify the topic or theme of the given news articles based on the titles and contents")

\* task_name_to_instruct of the Reranking / PairClassification branch
RerankingInstruct ==
    ("AskUbuntuDupQuestions" :>
        "Retrieve duplicate questions from AskUbuntu forum") @@
    ("MindSmallReranking" :>
        "Retrieve relevant news articles based on user browsing history") @@
    ("SciDocsRR" :>
        "Given a title of a scientific paper, retrieve the titles of other relevant papers") @@
    ("StackOverflowDupQuestions" :>
        "Retrieve duplicate questions from StackOverflow forum") @@
    ("SprintDuplicateQuestions" :>
        "Retrieve duplicate questions from Sprint forum") @@
    ("TwitterSemEval2015" :>
        "Retrieve tweets that are semantically similar to the given tweet") @@
    ("TwitterURLCorpus" :>
        "Retrieve tweets that are semantically similar to the given tweet") @@
    ("T2Reranking" :>
        "Given a Chinese search query, retrieve web passages that answer the question") @@
    ("MMarcoReranking" :>
        "Given a Chinese search query, retrieve web passages that answer the question") @@
    ("CMedQAv1" :>
        "Given a Chinese community medical question, retrieve replies that best answer the question") @@
    ("CMedQAv2" :>
        "Given a Chinese community medical question, retrieve replies that best answer the question") @@
    ("Ocnli" :>
        "Retrieve semantically similar text.") @@
    ("Cmnli" :>
        "Retrieve semantically similar text.")

\* task_name_to_instruct of the Retrieval branch, as first written
RetrievalInstruct ==
    ("ArguAna" :>
        "Given a claim, find documents that refute the claim") @@
    ("ClimateFEVER" :>
        "Given a claim about climate change, retrieve documents that support or refute the claim") @@
    ("DBPedia" :>
        "Given a query, retrieve relevant entity descriptions from DBPedia") @@
    ("FEVER" :>
        "Given a claim, retrieve documents that support or refute the claim") @@
    ("FiQA2018" :>
        "Given a financial question, retrieve user replies that best answer the question") @@
    ("HotpotQA" :>
        "Given a multi-hop question, retrieve documents that can help answer the question") @@
    ("MSMARCO" :>
        "Given a web search query, retrieve relevant passages that answer the query") @@
    ("NFCorpus" :>
        "Given a question, retrieve relevant documents that best answer the question") @@
    ("NQ" :>
        "Given a question, retrieve Wikipedia passages that answer the question") @@
    ("QuoraRetrieval" :>
        "Given a question, retrieve questions that are semantically equivalent to the given question") @@
    ("SCIDOCS" :>
        "Given a scientific paper title, retrieve paper abstracts that are cited by the given paper") @@
    ("SciFact" :>
        "Given a scientific claim, retrieve documents that support or refute the claim") @@
    ("Touche2020" :>
        "Given a question, retrieve detailed and persuasive arguments that answer the question") @@
    ("TRECCOVID" :>
        "Given a query on COVID-19, retrieve documents that answer the query") @@
    ("T2Retrieval" :>
        "Given a Chinese search query, retrieve web passages that answer the question") @@
    ("MMarcoRetrieval" :>
        "Given a web search query, retrieve relevant passages that answer the query") @@
    ("DuRetrieval" :>
        "Given a Chinese search query, retrieve web passages that answer the question") @@
    ("CovidRetrieval" :>
        "Given a question on COVID-19, retrieve news articles that answer the question") @@
    ("CmedqaRetrieval" :>
        "Given a Chinese community medical question, retrieve replies that best answer the question") @@
    ("EcomRetrieval" :>
        "Given a user query from an e-commerce website, retrieve description sentences of relevant products") @@
    ("MedicalRetrieval" :>
        "Given a medical question, retrieve user replies that best answer the question") @@
    ("VideoRetrieval" :>
        "Given a video search query, retrieve the titles of relevant videos")

\* Task names tried: every key of the four tables, the lower-case and alias
\* spellings of the Retrieval keys, and names no table holds.
TaskNames ==
    {"AmazonCounterfactualClassification", "AmazonPolarityClassification",
     "AmazonReviewsClassification", "Banking77Classification",
     "EmotionClassification", "ImdbClassification",
     "MassiveIntentClassification", "MassiveScenarioClassification",
     "MTOPDomainClassification", "MTOPIntentClassification",
     "ToxicConversationsClassification",
     "TweetSentimentExtractionClassification", "TNews", "IFlyTek",
     "MultilingualSentiment", "JDReview", "OnlineShopping", "Waimai",
     "ArxivClusteringP2P", "ArxivClusteringS2S", "BiorxivClusteringP2P",
     "BiorxivClusteringS2S", "MedrxivClusteringP2P",
     "MedrxivClusteringS2S", "RedditClustering", "RedditClusteringP2P",
     "StackExchangeClustering", "StackExchangeClusteringP2P",
     "TwentyNewsgroupsClustering", "CLSClusteringS2S", "CLSClusteringP2P",
     "ThuNewsClusteringS2S", "ThuNewsClusteringP2P",
     "AskUbuntuDupQuestions", "MindSmallReranking", "SciDocsRR",
     "StackOverflowDupQuestions", "SprintDuplicateQuestions",
     "TwitterSemEval2015", "TwitterURLCorpus", "T2Reranking",
     "MMarcoReranking", "CMedQAv1", "CMedQAv2", "Ocnli", "Cmnli",
     "ArguAna", "ClimateFEVER", "DBPedia", "FEVER", "FiQA2018", "HotpotQA",
     "MSMARCO", "NFCorpus", "NQ", "QuoraRetrieval", "SCIDOCS", "SciFact",
     "Touche2020", "TRECCOVID", "T2Retrieval", "MMarcoRetrieval",
     "DuRetrieval", "CovidRetrieval", "CmedqaRetrieval", "EcomRetrieval",
     "MedicalRetrieval", "VideoRetrieval", "arguana", "climatefever",
     "dbpedia", "fever", "fiqa2018", "hotpotqa", "msmarco", "nfcorpus",
     "nq", "quoraretrieval", "scidocs", "scifact", "touche2020",
     "treccovid", "t2retrieval", "mmarcoretrieval", "duretrieval",
     "covidretrieval", "cmedqaretrieval", "ecomretrieval",
     "medicalretrieval", "videoretrieval", "CQADupstackAndroidRetrieval",
     "cqadupstack", "trec-covid", "climate-fever", "dbpedia-entity",
     "webis-touche2020", "fiqa", "quora", "miracl", "UnknownTask", "STS12"}

\* str.lower() on the task names tried; a name not listed is already lower case.
LowerTable ==
    ("AmazonCounterfactualClassification" :> "amazoncounterfactualclassification") @@
    ("AmazonPolarityClassification" :> "amazonpolarityclassification") @@
    ("AmazonReviewsClassification" :> "amazonreviewsclassification") @@
    ("Banking77Classification" :> "banking77classification") @@
    ("EmotionClassification" :> "emotionclassification") @@
    ("ImdbClassification" :> "imdbclassification") @@
    ("MassiveIntentClassification" :> "massiveintentclassification") @@
    ("MassiveScenarioClassification" :> "massivescenarioclassification") @@
    ("MTOPDomainClassification" :> "mtopdomainclassification") @@
    ("MTOPIntentClassification" :> "mtopintentclassification") @@
    ("ToxicConversationsClassification" :> "toxicconversationsclassification") @@
    ("TweetSentimentExtractionClassification" :> "tweetsentimentextractionclassification") @@
    ("TNews" :> "tnews") @@
    ("IFlyTek" :> "iflytek") @@
    ("MultilingualSentiment" :> "multilingualsentiment") @@
    ("JDReview" :> "jdreview") @@
    ("OnlineShopping" :> "onlineshopping") @@
    ("Waimai" :> "waimai") @@
    ("ArxivClusteringP2P" :> "arxivclusteringp2p") @@
    ("ArxivClusteringS2S" :> "arxivclusterings2s") @@
    ("BiorxivClusteringP2P" :> "biorxivclusteringp2p") @@
    ("BiorxivClusteringS2S" :> "biorxivclusterings2s") @@
    ("MedrxivClusteringP2P" :> "medrxivclusteringp2p") @@
    ("MedrxivClusteringS2S" :> "medrxivclusterings2s") @@
    ("RedditClustering" :> "redditclustering") @@
    ("RedditClusteringP2P" :> "redditclusteringp2p") @@
    ("StackExchangeClustering" :> "stackexchangeclustering") @@
    ("StackExchangeClusteringP2P" :> "stackexchangeclusteringp2p") @@
    ("TwentyNewsgroupsClustering" :> "twentynewsgroupsclustering") @@
    ("CLSClusteringS2S" :> "clsclusterings2s") @@
    ("CLSClusteringP2P" :> "clsclusteringp2p") @@
    ("ThuNewsClusteringS2S" :> "thunewsclusterings2s") @@
    ("ThuNewsClusteringP2P" :> "thunewsclusteringp2p") @@
    ("AskUbuntuDupQuestions" :> "askubuntudupquestions") @@
    ("MindSmallReranking" :> "mindsmallreranking") @@
    ("SciDocsRR" :> "scidocsrr") @@
    ("StackOverflowDupQuestions" :> "stackoverflowdupquestions") @@
    ("SprintDuplicateQuestions" :> "sprintduplicatequestions") @@
    ("TwitterSemEval2015" :> "twittersemeval2015") @@
    ("TwitterURLCorpus" :> "twitterurlcorpus") @@
    ("T2Reranking" :> "t2reranking") @@
    ("MMarcoReranking" :> "mmarcoreranking") @@
    ("CMedQAv1" :> "cmedqav1") @@
    ("CMedQAv2" :> "cmedqav2") @@
    ("Ocnli" :> "ocnli") @@
    ("Cmnli" :> "cmnli") @@
    ("ArguAna" :> "arguana") @@
    ("ClimateFEVER" :> "climatefever") @@
    ("DBPedia" :> "dbpedia") @@
    ("FEVER" :> "fever") @@
    ("FiQA2018" :> "fiqa2018") @@
    ("HotpotQA" :> "hotpotqa") @@
    ("MSMARCO" :> "msmarco") @@
    ("NFCorpus" :> "nfcorpus") @@
    ("NQ" :> "nq") @@
    ("QuoraRetrieval" :> "quoraretrieval") @@
    ("SCIDOCS" :> "scidocs") @@
    ("SciFact" :> "scifact") @@
    ("Touche2020" :> "touche2020") @@
    ("TRECCOVID" :> "treccovid") @@
    ("T2Retrieval" :> "t2retrieval") @@
    ("MMarcoRetrieval" :> "mmarcoretrieval") @@
    ("DuRetrieval" :> "duretrieval") @@
    ("CovidRetrieval" :> "covidretrieval") @@
    ("CmedqaRetrieval" :> "cmedqaretrieval") @@
    ("EcomRetrieval" :> "ecomretrieval") @@
    ("MedicalRetrieval" :> "medicalretrieval") @@
    ("VideoRetrieval" :> "videoretrieval") @@
    ("CQADupstackAndroidRetrieval" :> "cqadupstackandroidretrieval") @@
    ("UnknownTask" :> "unknowntask") @@
    ("STS12" :> "sts12")

Lower(name) == IF name \in DOMAIN LowerTable THEN LowerTable[name] ELSE name

\* task_name.lower().startswith("cqadupstack"), on the names tried.
StartsWithCqadupstack(name) ==
    Lower(name) \in {"cqadupstack", "cqadupstackandroidretrieval"}

\* task_name_to_instruct.update({k.lower(): v ...}): the lower-case keys.
RetrievalLowered ==
    [k \in {Lower(b) : b \in DOMAIN RetrievalInstruct} |->
        RetrievalInstruct[CHOOSE b \in DOMAIN RetrievalInstruct : Lower(b) = k]]

\* The aliases assigned after the update, and the miracl entry.
RetrievalAliases ==
    ("trec-covid" :> RetrievalInstruct["TRECCOVID"]) @@
    ("climate-fever" :> RetrievalInstruct["ClimateFEVER"]) @@
    ("dbpedia-entity" :> RetrievalInstruct["DBPedia"]) @@
    ("webis-touche2020" :> RetrievalInstruct["Touche2020"]) @@
    ("fiqa" :> RetrievalInstruct["FiQA2018"]) @@
    ("quora" :> RetrievalInstruct["QuoraRetrieval"]) @@
    ("miracl" :>
        "Given a question, retrieve Wikipedia passages that answer the question")

\* The Retrieval table at the time of the lookup (later writes win).
RetrievalTable == RetrievalAliases @@ RetrievalLowered @@ RetrievalInstruct

\* return task_name_to_instruct[task_name]: a miss raises KeyError(task_name).
TableLookup(table, task_name, task_type) ==
    IF task_name \in DOMAIN table THEN TaskReturned(table[task_name])
    ELSE TaskRaised("KeyError", <<task_name>>)

\* get_task_def_by_task_name_and_type
GetTaskDefByTaskNameAndType(task_name, task_type) ==
    IF task_type \in {"STS"}
    THEN TaskReturned("Retrieve semantically similar text.")
    ELSE IF task_type \in {"Summarization"}
    THEN TaskReturned(
             "Given a news summary, retrieve other semantically similar summaries")
    ELSE IF task_type \in {"BitextMining"}
    THEN TaskReturned("Retrieve parallel sentences.")
    ELSE IF task_type \in {"Classification"}
    THEN TableLookup(ClassificationInstruct, task_name, task_type)
    ELSE IF task_type \in {"Clustering"}
    THEN TableLookup(ClusteringInstruct, task_name, task_type)
    ELSE IF task_type \in {"Reranking", "PairClassification"}
    THEN TableLookup(RerankingInstruct, task_name, task_type)
    ELSE IF task_type \in {"Retrieval"}
    THEN IF StartsWithCqadupstack(task_name)
         THEN TaskReturned(
                  "Given a question, retrieve detailed question descriptions from Stackexchange that are duplicates to the given question")
         ELSE TableLookup(RetrievalTable, task_name, task_type)
    ELSE TaskRaised("ValueError",
                    <<"No instruction config for task ", task_name,
                      " with type ", task_type>>)

TaskTypes ==
    {"STS", "Summarization", "BitextMining", "Classification", "Clustering",
     "Reranking", "PairClassification", "Retrieval", "retrieval", "Unknown"}

InitTask ==
    /\ call = "none"
    /\ files = <<>>
    /\ opened = <<>>
    /\ datas = <<>>
    /\ result = NotCalled
    /\ tokenizer = [model_max_length |-> 0]
    /\ max_length = PyNone
    /\ features = NotCalled
    /\ task = <<"", "">>
    /\ task_def = TaskNotCalled
    /\ batch_args = NoBatchArgs
    /\ batch_dict = NotCalled

\* get_task_def_by_task_name_and_type(task_name, task_type)
CallGetTaskDef ==
    /\ call = "none"
    /\ \E task_name \in TaskNames, task_type \in TaskTypes :
        /\ task' = <<task_name, task_type>>
        /\ task_def' = GetTaskDefByTaskNameAndType(task_name, task_type)
    /\ call' = "get_task_def_by_task_name_and_type"
    /\ UNCHANGED <<files, opened, datas, result, tokenizer, max_length,
                   features, batch_args, batch_dict>>

NextTask == CallGetTaskDef

SpecTask == InitTask /\ [][NextTask]_vars

----------------------------------------------------------------------------
(* Properties of the instruction lookup, checked under SpecTask *)

\* The table the task type selects, when it selects one.
SelectedTable(task_type) ==
    CASE task_type = "Classification" -> ClassificationInstruct
      [] task_type = "Clustering" -> ClusteringInstruct
      [] task_type \in {"Reranking", "PairClassification"} -> RerankingInstruct
      [] task_type = "Retrieval" -> RetrievalTable

TableTypes ==
    {"Classification", "Clustering", "Reranking", "PairClassification",
     "Retrieval"}

FixedTypes == {"STS", "Summarization", "BitextMining"}

\* The pair has no instruction: the name is absent from the selected table
\* (and is no cqadupstack name), or the type is not a recognised one.
NoInstruction(task_name, task_type) ==
    \/ /\ task_type \in TableTypes
       /\ task_name \notin DOMAIN SelectedTable(task_type)
       /\ ~(task_type = "Retrieval" /\ StartsWithCqadupstack(task_name))
    \/ task_type \notin TableTypes \cup FixedTypes

\* C10: for a pair without an instruction the lookup returns no string: it
\* fails with a ValueError whose message names the task and the type.
C10_MissIsValueError ==
    (task_def.kind # "idle" /\ NoInstruction(task[1], task[2])) =>
        /\ task_def.kind = "error"
        /\ task_def.err = "ValueError"
        /\ \E i \in 1..Len(task_def.msg) : task_def.msg[i] = task[1]
        /\ \E i \in 1..Len(task_def.msg) : task_def.msg[i] = task[2]

----------------------------------------------------------------------------
(* Batch tokenization: src/v1/utils.py *)

bos_token_id == TokenId("<s>")

eos_token_id == TokenId("</s>")

PadToMultipleOf == 8

Encode(text) == [i \in 1..Len(text) |-> TokenId(text[i])]

\* One row of tokenizer(..., max_length=M, truncation=True, padding=False):
\* at most M ids, the tokenizer's own leading special token included.
TruncatedRow(tok, text, M) ==
    IF tok.add_bos
    THEN <<bos_token_id>> \o SubSeq(Encode(text), 1, Min(Len(text), M - 1))
    ELSE SubSeq(Encode(text), 1, Min(Len(text), M))

MaxLen(rows) ==
    CHOOSE m \in {Len(rows[i]) : i \in 1..Len(rows)} :
        \A i \in 1..Len(rows) : Len(rows[i]) <= m

RoundUp(k, multiple) ==
    IF k % multiple = 0 THEN k ELSE ((k \div multiple) + 1) * multiple

Pads(k) == [i \in 1..k |-> pad_token_id]

Zeros(k) == [i \in 1..k |-> 0]

Ones(k) == [i \in 1..k |-> 1]

\* padding=True with pad_to_multiple_of: every row is padded, on the
\* tokenizer's padding side, to the longest row rounded up to the multiple.
PadBatch(tok, rows) ==
    LET target == RoundUp(MaxLen(rows), PadToMultipleOf)
    IN  [input_ids |->
             [i \in 1..Len(rows) |->
                 IF tok.padding_side = "right"
                 THEN rows[i] \o Pads(target - Len(rows[i]))
                 ELSE Pads(target - Len(rows[i])) \o rows[i]],
         attention_mask |->
             [i \in 1..Len(rows) |->
                 IF tok.padding_side = "right"
                 THEN Ones(Len(rows[i])) \o Zeros(target - Len(rows[i]))
                 ELSE Zeros(target - Len(rows[i])) \o Ones(Len(rows[i]))]]

\* Variant: the text is truncated to max_length, leaving no room for eos.
EosTruncationLengthFull(maxlen) == maxlen

\* max_length=max_length - 1 of the always_add_eos branch.
EosTruncationLength(maxlen) == maxlen - 1

\* create_batch_dict
CreateBatchDict(tok, input_texts, always_add_eos, maxlen) ==
    IF ~always_add_eos
    THEN Returned(PadBatch(tok,
             [i \in 1..Len(input_texts) |->
                 TruncatedRow(tok, input_texts[i], maxlen)]))
    ELSE LET truncated ==
                 [i \in 1..Len(input_texts) |->
                     TruncatedRow(tok, input_texts[i],
                                  EosTruncationLength(maxlen))]
             with_eos ==
                 [i \in 1..Len(input_texts) |->
                     truncated[i] \o <<eos_token_id>>]
         IN  Returned(PadBatch(tok, with_eos))

\* Inputs: texts of every length up to MaxTextLen, in batches of up to
\* MaxBatch; max_length from 2, so that the truncation length is at least 1.
Letters == <<"a", "d", "e", "g", "n">>

BatchText(k) == [i \in 1..k |-> Letters[((i - 1) % Len(Letters)) + 1]]

BatchTexts == {BatchText(k) : k \in 0..MaxTextLen}

InputTexts == UNION {[1..k -> BatchTexts] : k \in 1..MaxBatch}

BatchTokenizers ==
    [add_bos : BOOLEAN, padding_side : {"left", "right"}]

InitBatch ==
    /\ call = "none"
    /\ files = <<>>
    /\ opened = <<>>
    /\ datas = <<>>
    /\ result = NotCalled
    /\ tokenizer = [model_max_length |-> 0]
    /\ max_length = PyNone
    /\ features = NotCalled
    /\ task = <<"", "">>
    /\ task_def = TaskNotCalled
    /\ batch_args \in [input_texts : InputTexts,
                       always_add_eos : BOOLEAN,
                       max_length : 2..MaxBatchLength,
                       tokenizer : BatchTokenizers]
    /\ batch_dict = NotCalled

\* create_batch_dict(tokenizer, input_texts, always_add_eos, max_length)
CallCreateBatchDict ==
    /\ call = "none"
    /\ call' = "create_batch_dict"
    /\ batch_dict' = CreateBatchDict(batch_args.tokenizer,
                                     batch_args.input_texts,
                                     batch_args.always_add_eos,
                                     batch_args.max_length)
    /\ UNCHANGED <<files, opened, datas, result, tokenizer, max_length,
                   features, task, task_def, batch_args>>

NextBatch == CallCreateBatchDict

SpecBatch == InitBatch /\ [][NextBatch]_vars

----------------------------------------------------------------------------
(* Properties of create_batch_dict, checked under SpecBatch *)

\* The positions of row i that the attention mask marks as real tokens.
RealPositions(i) ==
    {k \in 1..Len(batch_dict.value.attention_mask[i]) :
        batch_dict.value.attention_mask[i][k] = 1}

LastReal(i) ==
    CHOOSE k \in RealPositions(i) : \A j \in RealPositions(i) : j <= k

\* Tokens the tokenizer itself yields for text i before any truncation.
UntruncatedLen(i) ==
    Len(batch_args.input_texts[i])
        + (IF batch_args.tokenizer.add_bos THEN 1 ELSE 0)

\* C11: with always_add_eos and max_length >= 2 every returned row holds at
\* most max_length non-padding tokens and its last non-padding token is
\* the eos id: the text is cut to max_length - 1 tokens before the eos is
\* appended, whatever the length of the text.
C11_EosKept ==
    (batch_dict.kind # "idle" /\ batch_args.always_add_eos
         /\ batch_args.max_length >= 2) =>
        /\ batch_dict.kind = "ok"
        /\ Len(batch_dict.value.input_ids) = Len(batch_args.input_texts)
        /\ \A i \in 1..Len(batch_args.input_texts) :
            /\ Cardinality(RealPositions(i)) <= batch_args.max_length
            /\ Cardinality(RealPositions(i))
                   = Min(UntruncatedLen(i), batch_args.max_length - 1) + 1
            /\ batch_dict.value.input_ids[i][LastReal(i)] = eos_token_id
            /\ \A k \in 1..Len(batch_dict.value.input_ids[i]) :
                   k \notin RealPositions(i) =>
                       batch_dict.value.input_ids[i][k] = pad_token_id

C11_Witness ==
    /\ batch_dict.kind = "ok"
    /\ batch_args.always_add_eos
    /\ Len(batch_args.input_texts) = MaxBatch
    /\ \E i \in 1..Len(batch_args.input_texts) :
        /\ UntruncatedLen(i) > batch_args.max_length
        /\ Cardinality(RealPositions(i)) = batch_args.max_length
        /\ Len(batch_dict.value.input_ids[i]) > batch_args.max_length
    /\ \E i \in 1..Len(batch_args.input_texts) :
        UntruncatedLen(i) < batch_args.max_length - 1

====
